---- MODULE Spec2Model ----
(***************************************************************************)
(* Intervals over an ordered domain extended with two sentinels, and the   *)
(* IntervalSet collection built on them (src/src/interval.py,              *)
(* src/src/intervalset.py).                                                *)
(*                                                                         *)
(* Domain values are the consumer's comparable values 0..MaxVal; they are  *)
(* instances of the comparison interface, so the two type checks at the    *)
(* top of Interval.__init__ pass and are not modelled.  Interval is taken   *)
(* as instantiable: the abstract comparison methods it inherits without    *)
(* defining them (__ne__, __le__, __ge__) are outside the model, which     *)
(* describes what the methods compute once an Interval exists.  An         *)
(* operation that can raise returns a record [exc, val]: exc = "None" and  *)
(* val the result, or exc the name of the exception raised.                *)
(*                                                                         *)
(* intervals is the sequence a mutable IntervalSet stores, a and b are the *)
(* operands of the algebra and of the Interval methods, args the arguments *)
(* of the last call, op its name, res its outcome and exc the exception it *)
(* raised; ret is the value the call returned, tagged with its kind.       *)
(* lists and refs describe list objects and the attribute `intervals` of   *)
(* the objects that refer to them, where several objects may share a list. *)
(***************************************************************************)
EXTENDS Integers, Sequences, FiniteSets, TLC

VARIABLES intervals, exc, op, a, b, res, args, lists, refs, ret

vars == <<intervals, exc, op, a, b, res, args, lists, refs, ret>>

\* ---------------------------------------------------------------- bounds
MaxVal == 2          \* domain values are 0..MaxVal
MaxLen == 2          \* longest stored sequence explored by the mutators
MaxArg == 1          \* mutator arguments have finite bounds in 0..MaxArg
MaxIter == 1         \* longest iterable passed to update and its siblings
MaxOperandLen == 2   \* longest operand of the algebra operators
MaxBuildTotal == 2   \* most intervals two sets built side by side hold together
RecursionLimit == 3  \* call depth at which the interpreter gives up
MaxLists == 3        \* most list objects allocated while objects share lists

Vals == 0..MaxVal

\* ------------------------------------------------------- extended order
NegInf == 0 - 1
PosInf == MaxVal + 1
Bounds == {NegInf} \cup Vals \cup {PosInf}

Ok(v) == [exc |-> "None", val |-> v]
Raise(e) == [exc |-> e, val |-> <<>>]

\* x < y: Smallest.__lt__ / Largest.__lt__ when x is a sentinel, the
\* reflected Smallest.__gt__ / Largest.__gt__ when only y is one.
Lt(x, y) ==
    IF x = NegInf THEN TRUE
    ELSE IF x = PosInf THEN FALSE
    ELSE IF y = NegInf THEN FALSE
    ELSE IF y = PosInf THEN TRUE
    ELSE x < y

\* x > y: Smallest.__gt__ / Largest.__gt__ when x is a sentinel, the
\* reflected Smallest.__lt__ / Largest.__lt__ when only y is one.
Gt(x, y) ==
    IF x = NegInf THEN FALSE
    ELSE IF x = PosInf THEN TRUE
    ELSE IF y = NegInf THEN TRUE
    ELSE IF y = PosInf THEN FALSE
    ELSE x > y

\* ------------------------------------------------------------- Interval
\* A constructor that omits the check of closed unbounded ends.
Interval_init_unchecked(lower_bound, upper_bound, closed, lower_closed, upper_closed) ==
    IF Lt(upper_bound, lower_bound) THEN Raise("ValueError")
    ELSE Ok([lower_bound |-> lower_bound,
             lower_closed |-> closed \/ lower_closed,
             upper_bound |-> upper_bound,
             upper_closed |-> closed \/ upper_closed])

Interval_init(lower_bound, upper_bound, closed, lower_closed, upper_closed) ==
    IF Lt(upper_bound, lower_bound) THEN Raise("ValueError")
    ELSE LET lc == closed \/ lower_closed
             uc == closed \/ upper_closed
         IN IF (lower_bound = NegInf /\ lc) \/ (upper_bound = PosInf /\ uc)
            THEN Raise("ValueError")
            ELSE Ok([lower_bound |-> lower_bound, lower_closed |-> lc,
                     upper_bound |-> upper_bound, upper_closed |-> uc])

\* Interval(...) with the defaults of the signature for omitted arguments.
Interval_default == Interval_init(NegInf, PosInf, TRUE, TRUE, TRUE)

\* Truth value of an Interval in `if r:`.  The class defines __nonzero__
\* only, which the interpreter of this source never consults: with neither
\* __bool__ nor __len__ every instance is true.
Interval_bool(r) == TRUE

\* The body of Interval.__nonzero__.
Interval_nonzero(r) ==
    r.lower_bound # r.upper_bound \/ (r.upper_closed /\ r.lower_closed)

Interval_eq(self, other) ==
    /\ self.upper_bound = other.upper_bound
    /\ self.lower_bound = other.lower_bound
    /\ self.upper_closed = other.upper_closed
    /\ self.lower_closed = other.lower_closed

none == Interval_init(0, 0, FALSE, TRUE, TRUE)

all == Interval_default

between(x, y, closed) == Interval_init(x, y, closed, TRUE, TRUE)

equal_to(x) == Interval_init(x, x, TRUE, TRUE, TRUE)

less_than(x) == Interval_init(NegInf, x, TRUE, TRUE, FALSE)

less_than_or_equal_to(x) == Interval_init(NegInf, x, TRUE, TRUE, TRUE)

greater_than(x) == Interval_init(x, PosInf, TRUE, FALSE, TRUE)

greater_than_or_equal_to(x) == Interval_init(x, PosInf, TRUE, TRUE, TRUE)

comes_before(self, other) ==
    IF Interval_eq(self, other) THEN FALSE
    ELSE IF Lt(self.lower_bound, other.lower_bound) THEN TRUE
    ELSE IF Gt(self.lower_bound, other.lower_bound) THEN FALSE
    ELSE IF self.lower_closed = other.lower_closed
         THEN IF Lt(self.upper_bound, other.upper_bound) THEN TRUE
              ELSE IF \/ Gt(self.upper_bound, other.upper_bound)
                      \/ self.upper_closed = other.upper_closed
                      \/ self.upper_closed
                   THEN FALSE
                   ELSE TRUE
    ELSE IF self.lower_closed THEN TRUE
    ELSE FALSE

\* overlaps at call depth d; the interpreter raises RecursionError once the
\* mutual delegation has nested RecursionLimit calls.
RECURSIVE overlaps_at(_, _, _)
overlaps_at(self, other, d) ==
    IF d > RecursionLimit THEN Raise("RecursionError")
    ELSE IF Interval_eq(self, other) THEN Ok(TRUE)
    ELSE IF comes_before(other, self) THEN overlaps_at(other, self, d + 1)
    ELSE IF Lt(other.lower_bound, self.upper_bound) THEN Ok(TRUE)
    ELSE IF other.lower_bound = self.upper_bound
         THEN Ok(other.lower_closed /\ self.upper_closed)
    ELSE Ok(FALSE)

overlaps(self, other) == overlaps_at(self, other, 0)

RECURSIVE adjacent_to_at(_, _, _)
adjacent_to_at(self, other, d) ==
    IF d > RecursionLimit THEN Raise("RecursionError")
    ELSE IF comes_before(self, other)
         THEN IF self.upper_bound = other.lower_bound
              THEN Ok(self.upper_closed # other.lower_closed)
              ELSE Ok(FALSE)
    ELSE IF Interval_eq(self, other) THEN Ok(FALSE)
    ELSE adjacent_to_at(other, self, d + 1)

adjacent_to(self, other) == adjacent_to_at(self, other, 0)

\* Sequencing of calls that may raise: when m raised, the exception
\* propagates; otherwise the rest F runs on the value m returned.
Then(m, F(_)) == IF m.exc # "None" THEN m ELSE F(m.val)

\* `x.overlaps(y) or x.adjacent_to(y)`, left to right with short circuit.
overlaps_or_adjacent(self, other) ==
    Then(overlaps(self, other),
         LAMBDA o : IF o THEN Ok(TRUE) ELSE adjacent_to(self, other))

\* max and min of two flags, as join and __and__ apply them.
MaxFlag(x, y) == x \/ y
MinFlag(x, y) == x /\ y

\* The bounds and flags join passes to the constructor.
join_lower(self, other) ==
    IF Lt(self.lower_bound, other.lower_bound)
    THEN <<self.lower_bound, self.lower_closed>>
    ELSE IF self.lower_bound = other.lower_bound
    THEN <<self.lower_bound, MaxFlag(self.lower_closed, other.lower_closed)>>
    ELSE <<other.lower_bound, other.lower_closed>>

join_upper(self, other) ==
    IF Gt(self.upper_bound, other.upper_bound)
    THEN <<self.upper_bound, self.upper_closed>>
    ELSE IF self.upper_bound = other.upper_bound
    THEN <<self.upper_bound, MaxFlag(self.upper_closed, other.upper_closed)>>
    ELSE <<other.upper_bound, other.upper_closed>>

join_made(lo, hi) == Interval_init(lo[1], hi[1], TRUE, lo[2], hi[2])

join(self, other) ==
    Then(overlaps_or_adjacent(self, other),
         LAMBDA t : IF t
                    THEN join_made(join_lower(self, other),
                                   join_upper(self, other))
                    ELSE Raise("ArithmeticError"))

\* Interval.__contains__ for an Interval argument.
Interval_contains(self, obj) ==
    LET insideLower ==
            IF Lt(obj.lower_bound, self.lower_bound) THEN FALSE
            ELSE IF obj.lower_bound = self.lower_bound
                 THEN obj.lower_closed => self.lower_closed
            ELSE TRUE
        insideUpper ==
            IF Gt(obj.upper_bound, self.upper_bound) THEN FALSE
            ELSE IF obj.upper_bound = self.upper_bound
                 THEN obj.upper_closed => self.upper_closed
            ELSE TRUE
    IN insideLower /\ insideUpper

\* An argument that is "an Interval or a discrete value" carries its kind,
\* which is what isinstance(obj, Interval) inspects.
IntervalObj(r) == [kind |-> "Interval", iv |-> r]
ValueObj(v) == [kind |-> "value", v |-> v]

\* What a call hands back to its caller is tagged the same way: None, a
\* bool, a discrete value or an Interval.
NoneObj == [kind |-> "None"]
BoolObj(x) == [kind |-> "bool", flag |-> x]

\* Interval.__contains__ for either kind of argument; a discrete value is
\* wrapped by equal_to first.
Interval_contains_obj(self, obj) ==
    IF obj.kind = "Interval" THEN Interval_contains(self, obj.iv)
    ELSE Interval_contains(self, equal_to(obj.v).val)

\* ------------------------------------------------------ BaseIntervalSet
\* list.sort() with Interval.__lt__ = comes_before: a stable insertion
\* sort, which is what the library sort performs on these short lists.
RECURSIVE sort_position(_, _, _)
sort_position(s, x, j) ==
    IF j > 0 /\ comes_before(x, s[j]) THEN sort_position(s, x, j - 1) ELSE j

sort_insert_at(s, x, j) ==
    SubSeq(s, 1, j) \o <<x>> \o SubSeq(s, j + 1, Len(s))

sort_insert(s, x) == sort_insert_at(s, x, sort_position(s, x, Len(s)))

RECURSIVE sort_prefix(_, _)
sort_prefix(s, n) ==
    IF n = 0 THEN <<>> ELSE sort_insert(sort_prefix(s, n - 1), s[n])

sort(s) == sort_prefix(s, Len(s))

\* The loop of _add from its k-th iteration on, then the append and sort.
RECURSIVE add_loop(_, _, _, _)
add_loop(ivs, k, r, newIntervals) ==
    IF k > Len(ivs) THEN Ok(sort(Append(newIntervals, r)))
    ELSE Then(overlaps_or_adjacent(ivs[k], r),
              LAMBDA t :
                  IF t
                  THEN Then(join(r, ivs[k]),
                            LAMBDA j : add_loop(ivs, k + 1, j, newIntervals))
                  ELSE add_loop(ivs, k + 1, r, Append(newIntervals, ivs[k])))

\* The Interval _add works on: obj itself, or equal_to(obj).
as_interval(obj) ==
    IF obj.kind = "Interval" THEN Ok(obj.iv) ELSE equal_to(obj.v)

\* BaseIntervalSet._add: the new value of self.intervals, or the exception.
BaseIntervalSet_add(ivs, obj) ==
    Then(as_interval(obj),
         LAMBDA r : IF Interval_bool(r) THEN add_loop(ivs, 1, r, <<>>)
                    ELSE Ok(ivs))

\* BaseIntervalSet.__init__ after its first n items.
RECURSIVE init_prefix(_, _)
init_prefix(items, n) ==
    IF n = 0 THEN Ok(<<>>)
    ELSE Then(init_prefix(items, n - 1),
              LAMBDA p : BaseIntervalSet_add(p, items[n]))

BaseIntervalSet_init(items) == init_prefix(items, Len(items))

\* The items an IntervalSet yields when it is iterated.
Iterate(ivs) == [k \in 1..Len(ivs) |-> IntervalObj(ivs[k])]

\* IntervalSet(s) for an existing set s.
IntervalSet_of(ivs) == BaseIntervalSet_init(Iterate(ivs))

BaseIntervalSet_contains(ivs, obj) ==
    \E k \in 1..Len(ivs) : Interval_contains_obj(ivs[k], obj)

BaseIntervalSet_le(self, other) ==
    \A k \in 1..Len(self) :
        BaseIntervalSet_contains(other, IntervalObj(self[k]))

BaseIntervalSet_ge(self, other) ==
    \A k \in 1..Len(other) :
        BaseIntervalSet_contains(self, IntervalObj(other[k]))

issubset(self, other) == BaseIntervalSet_le(self, other)

issuperset(self, other) == BaseIntervalSet_ge(self, other)

BaseIntervalSet_eq(self, other) ==
    issubset(self, other) /\ issubset(other, self)

\* temp.add(x) for each x of a list of freshly constructed intervals, each
\* of which may itself be the exception its constructor raised.
RECURSIVE add_each(_, _, _)
add_each(temp, made, n) ==
    IF n = 0 THEN Ok(temp)
    ELSE Then(add_each(temp, made, n - 1),
              LAMBDA p :
                  Then(made[n],
                       LAMBDA x : BaseIntervalSet_add(p, IntervalObj(x))))

\* The two remainders __sub__ constructs: i below j, and i above j.
sub_before(i, j) ==
    Interval_init(i.lower_bound, j.lower_bound, TRUE,
                  i.lower_closed, ~j.lower_closed)

sub_after(i, j) ==
    Interval_init(j.upper_bound, i.upper_bound, TRUE,
                  ~j.upper_closed, i.upper_closed)

\* The intervals __sub__ adds to temp for one stored i and one removed j.
sub_pieces(i, j) ==
    Then(overlaps(i, j),
         LAMBDA o :
             IF o
             THEN IF Interval_contains(j, i) THEN Ok(<<>>)
                  ELSE IF Interval_contains(i, j)
                  THEN Ok(<<sub_before(i, j), sub_after(i, j)>>)
                  ELSE IF comes_before(j, i) THEN Ok(<<sub_after(i, j)>>)
                  ELSE Ok(<<sub_before(i, j)>>)
             ELSE Ok(<<Ok(i)>>))

\* The inner loop of __sub__ over result.intervals from index k on.
RECURSIVE sub_inner(_, _, _, _)
sub_inner(result, j, k, temp) ==
    IF k > Len(result) THEN Ok(temp)
    ELSE Then(sub_pieces(result[k], j),
              LAMBDA pieces :
                  Then(add_each(temp, pieces, Len(pieces)),
                       LAMBDA t : sub_inner(result, j, k + 1, t)))

\* The outer loop of __sub__ over other.intervals from index n on.
RECURSIVE sub_outer(_, _, _)
sub_outer(result, other, n) ==
    IF n > Len(other) THEN Ok(result)
    ELSE Then(sub_inner(result, other[n], 1, <<>>),
              LAMBDA t : sub_outer(t, other, n + 1))

BaseIntervalSet_sub(self, other) ==
    Then(IntervalSet_of(self),
         LAMBDA result :
             Then(sub_outer(result, other, 1),
                  LAMBDA r : IntervalSet_of(r)))

\* The overlap __and__ constructs when neither interval contains the other.
and_made(first, second) ==
    Interval_init(second.lower_bound, first.upper_bound, TRUE,
                  second.lower_closed, first.upper_closed)

\* The interval __and__ adds to result for one i of self and one j of
\* other, or no interval when they do not overlap.
and_piece(i, j) ==
    Then(overlaps(i, j),
         LAMBDA o :
             IF o
             THEN IF Interval_contains(j, i) THEN Ok(<<Ok(i)>>)
                  ELSE IF Interval_contains(i, j) THEN Ok(<<Ok(j)>>)
                  ELSE IF comes_before(j, i) THEN Ok(<<and_made(j, i)>>)
                  ELSE Ok(<<and_made(i, j)>>)
             ELSE Ok(<<>>))

\* The nested loops of __and__, flattened: step n handles the pair
\* (other[j], self[i]) with j the outer and i the inner index.
RECURSIVE and_loop(_, _, _, _)
and_loop(self, other, n, result) ==
    IF n > Len(self) * Len(other) THEN Ok(result)
    ELSE Then(and_piece(self[((n - 1) % Len(self)) + 1],
                        other[((n - 1) \div Len(self)) + 1]),
              LAMBDA piece :
                  Then(add_each(result, piece, Len(piece)),
                       LAMBDA t : and_loop(self, other, n + 1, t)))

BaseIntervalSet_and(self, other) ==
    Then(and_loop(self, other, 1, <<>>), LAMBDA r : IntervalSet_of(r))

\* union.add(r) for the first n intervals of other.
RECURSIVE or_loop(_, _, _)
or_loop(union_set, other, n) ==
    IF n = 0 THEN Ok(union_set)
    ELSE Then(or_loop(union_set, other, n - 1),
              LAMBDA p : BaseIntervalSet_add(p, IntervalObj(other[n])))

BaseIntervalSet_or(self, other) ==
    Then(IntervalSet_of(self),
         LAMBDA u :
             Then(or_loop(u, other, Len(other)),
                  LAMBDA r : IntervalSet_of(r)))

BaseIntervalSet_add_op(self, other) == BaseIntervalSet_or(self, other)

BaseIntervalSet_xor(self, other) ==
    Then(BaseIntervalSet_or(self, other),
         LAMBDA u :
             Then(BaseIntervalSet_and(self, other),
                  LAMBDA n : BaseIntervalSet_sub(u, n)))

\* cls([x]) for a freshly constructed interval x of a named constructor.
set_of_made(made) ==
    Then(made, LAMBDA x : BaseIntervalSet_init(<<IntervalObj(x)>>))

IntervalSet_all == set_of_made(all)

IntervalSet_empty == BaseIntervalSet_init(<<>>)

IntervalSet_between(x, y, closed) == set_of_made(between(x, y, closed))

IntervalSet_not_equal_to(n) ==
    Then(less_than(n),
         LAMBDA lt :
             Then(greater_than(n),
                  LAMBDA gt : BaseIntervalSet_init(
                                  <<IntervalObj(lt), IntervalObj(gt)>>)))

BaseIntervalSet_invert(self) ==
    Then(IntervalSet_all, LAMBDA u : BaseIntervalSet_sub(u, self))

\* --------------------------------------------------- IntervalSet mutators
\* IntervalSet.discard: the new self.intervals, or the exception.
IntervalSet_discard(self, obj) ==
    Then(BaseIntervalSet_init(<<obj>>),
         LAMBDA operand : BaseIntervalSet_sub(self, operand))

IntervalSet_remove(self, obj) ==
    IF BaseIntervalSet_contains(self, obj) THEN IntervalSet_discard(self, obj)
    ELSE Raise("KeyError")

\* The method forms accept any iterable: it is first made an IntervalSet.
union(self, other) ==
    Then(BaseIntervalSet_init(other),
         LAMBDA operand : BaseIntervalSet_or(self, operand))

intersection(self, other) ==
    Then(BaseIntervalSet_init(other),
         LAMBDA operand : BaseIntervalSet_and(self, operand))

difference(self, other) ==
    Then(BaseIntervalSet_init(other),
         LAMBDA operand : BaseIntervalSet_sub(self, operand))

symmetric_difference(self, other) ==
    Then(BaseIntervalSet_init(other),
         LAMBDA operand : BaseIntervalSet_xor(self, operand))

\* The position (from 1) that list index i denotes in a list of length n,
\* or 0 when the index is out of range.
ListPosition(i, n) ==
    IF i >= 0 THEN (IF i < n THEN i + 1 ELSE 0)
    ELSE (IF 0 - i <= n THEN n + i + 1 ELSE 0)

RemoveAt(s, k) == SubSeq(s, 1, k - 1) \o SubSeq(s, k + 1, Len(s))

\* The accessors of the set's outer bounds; each raises IndexError on an
\* empty set.
BaseIntervalSet_lower_bound(self) ==
    IF Len(self) > 0 THEN Ok(self[1].lower_bound) ELSE Raise("IndexError")

BaseIntervalSet_upper_bound(self) ==
    IF Len(self) > 0 THEN Ok(self[Len(self)].upper_bound)
    ELSE Raise("IndexError")

BaseIntervalSet_lower_closed(self) ==
    IF Len(self) > 0 THEN Ok(self[1].lower_closed) ELSE Raise("IndexError")

BaseIntervalSet_upper_closed(self) ==
    IF Len(self) > 0 THEN Ok(self[1].upper_closed) ELSE Raise("IndexError")

\* bounds(): Interval.none() for an empty set, else the constructor applied
\* to the four accessors, its closed argument left at the default.
BaseIntervalSet_bounds(self) ==
    IF Len(self) = 0 THEN none
    ELSE Interval_init(BaseIntervalSet_lower_bound(self).val,
                       BaseIntervalSet_upper_bound(self).val,
                       TRUE,
                       BaseIntervalSet_lower_closed(self).val,
                       BaseIntervalSet_upper_closed(self).val)

\* What pop returns for the interval i it took off the list.
pop_result(i) ==
    IF i.lower_bound = i.upper_bound THEN ValueObj(i.lower_bound)
    ELSE IntervalObj(i)

\* ------------------------------------------------------------ the inputs
\* Every Interval some call of the constructor returns.
Intervals ==
    {r \in [lower_bound : Bounds, lower_closed : BOOLEAN,
            upper_bound : Bounds, upper_closed : BOOLEAN] :
        \E c \in BOOLEAN, lc \in BOOLEAN, uc \in BOOLEAN :
            LET m == Interval_init(r.lower_bound, r.upper_bound, c, lc, uc)
            IN m.exc = "None" /\ m.val = r}

\* What a caller can pass where an Interval or a discrete value is expected.
Objects == {IntervalObj(r) : r \in Intervals} \cup {ValueObj(v) : v \in Vals}

\* The arguments the mutators are called with.
ArgBounds == {NegInf} \cup (0..MaxArg) \cup {PosInf}

Args ==
    {IntervalObj(r) : r \in {x \in Intervals : /\ x.lower_bound \in ArgBounds
                                               /\ x.upper_bound \in ArgBounds}}
        \cup {ValueObj(v) : v \in 0..MaxArg}

\* The iterables passed to update and its siblings.
Iterables == UNION {[1..n -> Args] : n \in 0..MaxIter}

Indices == (0 - (MaxLen + 1))..MaxLen

\* ------------------------------------------------ the mutable IntervalSet
\* One call of a mutator that computes the new sequence r (or raises).
Assign(name, r) ==
    /\ op' = name
    /\ res' = r
    /\ exc' = res'.exc
    /\ intervals' = IF exc' = "None" THEN res'.val ELSE intervals
    /\ Len(intervals') <= MaxLen
    /\ ret' = NoneObj
    /\ UNCHANGED <<a, b, args, lists, refs>>

add(obj) == Assign("add", BaseIntervalSet_add(intervals, obj))

remove(obj) == Assign("remove", IntervalSet_remove(intervals, obj))

discard(obj) == Assign("discard", IntervalSet_discard(intervals, obj))

update(other) == Assign("update", union(intervals, other))

intersection_update(other) ==
    Assign("intersection_update", intersection(intervals, other))

difference_update(other) ==
    Assign("difference_update", difference(intervals, other))

symmetric_difference_update(other) ==
    Assign("symmetric_difference_update",
           symmetric_difference(intervals, other))

clear == Assign("clear", Ok(<<>>))

\* pop takes the last element off the list in place and returns it.
pop ==
    /\ op' = "pop"
    /\ res' = IF Len(intervals) > 0
              THEN Ok(SubSeq(intervals, 1, Len(intervals) - 1))
              ELSE Raise("KeyError")
    /\ exc' = res'.exc
    /\ intervals' = IF exc' = "None" THEN res'.val ELSE intervals
    /\ ret' = IF Len(intervals) > 0
              THEN pop_result(intervals[Len(intervals)])
              ELSE NoneObj
    /\ UNCHANGED <<a, b, args, lists, refs>>

delitem(index) ==
    LET k == ListPosition(index, Len(intervals))
    IN Assign("delitem", IF k > 0 THEN Ok(RemoveAt(intervals, k))
                         ELSE Raise("IndexError"))

\* One call of a method that reads the set and returns r (or raises).
Observe(name, r) ==
    /\ op' = name
    /\ exc' = r.exc
    /\ ret' = IF exc' = "None" THEN r.val ELSE NoneObj
    /\ res' = IF exc' = "None" THEN Ok(intervals) ELSE Raise(exc')
    /\ UNCHANGED <<intervals, a, b, args, lists, refs>>

upper_closed ==
    Observe("upper_closed",
            Then(BaseIntervalSet_upper_closed(intervals),
                 LAMBDA flag : Ok(BoolObj(flag))))

bounds ==
    Observe("bounds",
            Then(BaseIntervalSet_bounds(intervals),
                 LAMBDA made : Ok(IntervalObj(made))))

Init ==
    /\ intervals = <<>>
    /\ exc = "None"
    /\ op = "init"
    /\ a = <<>>
    /\ b = <<>>
    /\ res = Ok(<<>>)
    /\ args = <<>>
    /\ lists = <<>>
    /\ refs = <<>>
    /\ ret = NoneObj

Next ==
    \/ \E obj \in Args : add(obj)
    \/ \E obj \in Args : remove(obj)
    \/ \E obj \in Args : discard(obj)
    \/ \E other \in Iterables : update(other)
    \/ \E other \in Iterables : intersection_update(other)
    \/ \E other \in Iterables : difference_update(other)
    \/ \E other \in Iterables : symmetric_difference_update(other)
    \/ clear
    \/ pop
    \/ \E index \in Indices : delitem(index)
    \/ upper_closed
    \/ bounds

Spec == Init /\ [][Next]_vars

\* ------------------------------------------------- points of the domain
\* The domain is dense: between two neighbouring values of Vals, below the
\* least and above the greatest lie further points.  Point t stands for the
\* value t \div 2 when t is even and for a point strictly between two
\* values when t is odd; a bound x lies at 2 * x.
Points == (0 - 1)..(2 * MaxVal + 1)

PointIn(t, r) ==
    /\ 2 * r.lower_bound < t \/ (2 * r.lower_bound = t /\ r.lower_closed)
    /\ t < 2 * r.upper_bound \/ (t = 2 * r.upper_bound /\ r.upper_closed)

Member(t, ivs) == \E k \in 1..Len(ivs) : PointIn(t, ivs[k])

PointsOf(ivs) == {t \in Points : Member(t, ivs)}

\* ------------------------------------------- canonical sets as operands
NonEmpty(r) ==
    \/ r.lower_bound < r.upper_bound
    \/ r.lower_bound = r.upper_bound /\ r.lower_closed /\ r.upper_closed

\* p lies wholly before q, with a gap between them.
Separated(p, q) ==
    \/ p.upper_bound < q.lower_bound
    \/ p.upper_bound = q.lower_bound /\ ~p.upper_closed /\ ~q.lower_closed

Canonical(ivs) ==
    /\ \A k \in 1..Len(ivs) : NonEmpty(ivs[k])
    /\ \A k \in 1..(Len(ivs) - 1) : Separated(ivs[k], ivs[k + 1])

\* The canonical sets IntervalSet(list of intervals) constructs as given.
CanonicalSets ==
    {s \in UNION {[1..n -> Intervals] : n \in 0..MaxOperandLen} :
        /\ Canonical(s)
        /\ LET r == IntervalSet_of(s) IN r.exc = "None" /\ r.val = s}

\* ------------------------------------------- the algebra on two operands
Compute(name, r) ==
    /\ op' = name
    /\ res' = r
    /\ UNCHANGED <<a, b, intervals, exc, args, lists, refs, ret>>

do_or == Compute("or", BaseIntervalSet_or(a, b))

do_and == Compute("and", BaseIntervalSet_and(a, b))

do_sub == Compute("sub", BaseIntervalSet_sub(a, b))

do_xor == Compute("xor", BaseIntervalSet_xor(a, b))

do_invert == Compute("invert", BaseIntervalSet_invert(a))

\* ~(~a)
invert_invert(s) ==
    Then(BaseIntervalSet_invert(s), LAMBDA i : BaseIntervalSet_invert(i))

do_invert_invert == Compute("invert_invert", invert_invert(a))

\* ~(~a & ~b)
de_morgan(s, t) ==
    Then(BaseIntervalSet_invert(s),
         LAMBDA na :
             Then(BaseIntervalSet_invert(t),
                  LAMBDA nb :
                      Then(BaseIntervalSet_and(na, nb),
                           LAMBDA n : BaseIntervalSet_invert(n))))

do_de_morgan == Compute("de_morgan", de_morgan(a, b))

do_issubset == Compute("issubset", Ok(issubset(a, b)))

do_issuperset == Compute("issuperset", Ok(issuperset(b, a)))

InitAlg ==
    /\ a \in CanonicalSets
    /\ b \in CanonicalSets
    /\ op = "init"
    /\ res = Ok(<<>>)
    /\ args = <<>>
    /\ lists = <<>>
    /\ refs = <<>>
    /\ ret = NoneObj
    /\ intervals = <<>>
    /\ exc = "None"

NextAlg ==
    \/ do_or
    \/ do_and
    \/ do_sub
    \/ do_xor
    \/ do_invert
    \/ do_invert_invert
    \/ do_de_morgan
    \/ do_issubset
    \/ do_issuperset

SpecAlg == InitAlg /\ [][NextAlg]_vars

\* ------------------------------------------ two sets built side by side
add_a(obj) ==
    /\ res' = BaseIntervalSet_add(a, obj)
    /\ a' = IF res'.exc = "None" THEN res'.val ELSE a
    /\ Len(a') + Len(b) <= MaxBuildTotal
    /\ UNCHANGED <<b, intervals, exc, op, args, lists, refs, ret>>

add_b(obj) ==
    /\ res' = BaseIntervalSet_add(b, obj)
    /\ b' = IF res'.exc = "None" THEN res'.val ELSE b
    /\ Len(a) + Len(b') <= MaxBuildTotal
    /\ UNCHANGED <<a, intervals, exc, op, args, lists, refs, ret>>

NextBuild ==
    \/ \E obj \in Objects : add_a(obj)
    \/ \E obj \in Objects : add_b(obj)

SpecBuild == Init /\ [][NextBuild]_vars

\* ================================================================ claims
\* Whether x.overlaps(y) or x.adjacent_to(y) returns True.
Touching(x, y) ==
    \/ overlaps(x, y).exc = "None" /\ overlaps(x, y).val
    \/ adjacent_to(x, y).exc = "None" /\ adjacent_to(x, y).val

SortedByComesBefore(ivs) ==
    \A k \in 1..(Len(ivs) - 1) : ~comes_before(ivs[k + 1], ivs[k])

\* C1: starting from an empty IntervalSet, after any sequence of public
\* mutators the stored sequence is sorted by comes_before, and no two
\* stored intervals overlap or are adjacent_to each other.
C1_Canonicality ==
    /\ SortedByComesBefore(intervals)
    /\ \A j \in 1..Len(intervals), k \in 1..Len(intervals) :
           j # k => ~Touching(intervals[j], intervals[k])

\* C2: no IntervalSet ever stores an empty interval (lower == upper with at
\* least one endpoint open), whichever mutator produced the stored sequence.
C2_NoEmptyStored ==
    \A k \in 1..Len(intervals) : NonEmpty(intervals[k])

\* r returned normally and the set it returned == the set ivs.
ReturnsEqual(r, ivs) == r.exc = "None" /\ BaseIntervalSet_eq(r.val, ivs)

\* Both calls returned normally and the sets they returned are ==.
BothEqual(r1, r2) == r1.exc = "None" /\ ReturnsEqual(r2, r1.val)

\* C3: for all canonical a and b, a | b contains a point exactly when a or
\* b contains it, at and strictly between all bound values, and
\* a | b == b | a.
C3_Union ==
    op = "or" =>
        /\ res.exc = "None"
        /\ \A t \in Points :
               Member(t, res.val) <=> (Member(t, a) \/ Member(t, b))
        /\ ReturnsEqual(BaseIntervalSet_or(b, a), res.val)

\* C4: for all canonical a and b, a & b contains a point exactly when both
\* a and b contain it (a cut boundary keeps its open/closed flag), and
\* a & b == b & a.
C4_Intersection ==
    op = "and" =>
        /\ res.exc = "None"
        /\ \A t \in Points :
               Member(t, res.val) <=> (Member(t, a) /\ Member(t, b))
        /\ ReturnsEqual(BaseIntervalSet_and(b, a), res.val)

\* IntervalSet.all() - IntervalSet([v])
all_minus(v) ==
    Then(IntervalSet_all,
         LAMBDA u : Then(BaseIntervalSet_init(<<ValueObj(v)>>),
                         LAMBDA w : BaseIntervalSet_sub(u, w)))

\* C5: for all canonical a and b, a - b contains a point exactly when a
\* contains it and b does not, and IntervalSet.all() - IntervalSet([v])
\* equals IntervalSet.not_equal_to(v).
C5_Difference ==
    /\ op = "sub" =>
           /\ res.exc = "None"
           /\ \A t \in Points :
                  Member(t, res.val) <=> (Member(t, a) /\ ~Member(t, b))
    /\ \A v \in Vals : BothEqual(all_minus(v), IntervalSet_not_equal_to(v))

\* between(p, s) ^ between(q, r)
between_xor(p, q, r, s) ==
    Then(IntervalSet_between(p, s, TRUE),
         LAMBDA x : Then(IntervalSet_between(q, r, TRUE),
                         LAMBDA y : BaseIntervalSet_xor(x, y)))

\* The two half-open pieces [p..q) and (r..s].
HalfOpenPieces(p, q, r, s) ==
    <<[lower_bound |-> p, upper_bound |-> q,
       lower_closed |-> TRUE, upper_closed |-> FALSE],
      [lower_bound |-> r, upper_bound |-> s,
       lower_closed |-> FALSE, upper_closed |-> TRUE]>>

\* C6: for all canonical a and b, a ^ b contains a point exactly when
\* exactly one of a and b contains it, a ^ b == b ^ a, and for bounds
\* p < q < r < s, between(p, s) ^ between(q, r) is [p..q),(r..s].
C6_SymmetricDifference ==
    /\ op = "xor" =>
           /\ res.exc = "None"
           /\ \A t \in Points :
                  Member(t, res.val) <=> (Member(t, a) # Member(t, b))
           /\ ReturnsEqual(BaseIntervalSet_xor(b, a), res.val)
    /\ \A p \in Vals, q \in Vals, r \in Vals, s \in Vals :
           (p < q /\ q < r /\ r < s) =>
               /\ between_xor(p, q, r, s).exc = "None"
               /\ between_xor(p, q, r, s).val = HalfOpenPieces(p, q, r, s)

\* C7: for every canonical s, complementing twice raises no error and
\* gives back the same set: ~(~s) == s.
C7_DoubleComplement ==
    op = "invert_invert" => ReturnsEqual(res, a)

\* C8: for all canonical a and b, (a | b) == ~(~a & ~b).
C8_DeMorgan ==
    op = "de_morgan" => BothEqual(BaseIntervalSet_or(a, b), res)

\* C9: for every canonical s, s | s == s, s & s == s, and s - s is the
\* empty set, of length 0.
C9_Idempotence ==
    a = b =>
        /\ op = "or" => ReturnsEqual(res, a)
        /\ op = "and" => ReturnsEqual(res, a)
        /\ op = "sub" => res.exc = "None" /\ Len(res.val) = 0

\* C10: two sets built by different sequences of add compare == exactly
\* when they contain the same points, and whenever they compare == their
\* stored sequences are identical.
C10_UniqueCanonicalForm ==
    /\ BaseIntervalSet_eq(a, b) <=> (PointsOf(a) = PointsOf(b))
    /\ BaseIntervalSet_eq(a, b) => a = b

\* C11: for all IntervalSets a and b, a.issubset(b) holds exactly when
\* b.issuperset(a) holds, and both hold exactly when every point of a is a
\* point of b.
C11_SubsetDuality ==
    /\ issubset(a, b) <=> issuperset(b, a)
    /\ op = "issubset" => (res.val <=> PointsOf(a) \subseteq PointsOf(b))
    /\ op = "issuperset" => (res.val <=> PointsOf(a) \subseteq PointsOf(b))

\* ------------------------------------------------- the extended order
Sentinels == {NegInf, PosInf}

\* x == y: Smallest.__eq__ / Largest.__eq__, reflected when only y is a
\* sentinel.
Eq(x, y) ==
    IF x = NegInf THEN y = NegInf
    ELSE IF x = PosInf THEN y = PosInf
    ELSE IF y \in Sentinels THEN FALSE
    ELSE x = y

\* x != y: Smallest.__ne__ / Largest.__ne__.
Ne(x, y) ==
    IF x = NegInf THEN y # NegInf
    ELSE IF x = PosInf THEN y # PosInf
    ELSE IF y \in Sentinels THEN TRUE
    ELSE x # y

\* x <= y: Smallest.__le__ / Largest.__le__, or the reflected __ge__ of y.
Le(x, y) ==
    IF x = NegInf THEN TRUE
    ELSE IF x = PosInf THEN y = PosInf
    ELSE IF y = NegInf THEN FALSE
    ELSE IF y = PosInf THEN TRUE
    ELSE x <= y

\* x >= y: Smallest.__ge__ / Largest.__ge__, or the reflected __le__ of y.
Ge(x, y) ==
    IF x = NegInf THEN y = NegInf
    ELSE IF x = PosInf THEN TRUE
    ELSE IF y = NegInf THEN TRUE
    ELSE IF y = PosInf THEN FALSE
    ELSE x >= y

\* -x for a sentinel x.
Neg(x) == IF x = NegInf THEN PosInf ELSE NegInf

\* One comparison of the pair of bounds drawn at the start.
Compare(name, v) ==
    /\ op' = name
    /\ res' = Ok(v)
    /\ UNCHANGED <<a, b, intervals, exc, args, lists, refs, ret>>

do_lt == Compare("lt", Lt(args[1], args[2]))

do_gt == Compare("gt", Gt(args[1], args[2]))

do_eq == Compare("eq", Eq(args[1], args[2]))

do_ne == Compare("ne", Ne(args[1], args[2]))

do_le == Compare("le", Le(args[1], args[2]))

do_ge == Compare("ge", Ge(args[1], args[2]))

do_neg == args[1] \in Sentinels /\ Compare("neg", Neg(args[1]))

InitOrd ==
    /\ args \in Bounds \X Bounds
    /\ lists = <<>>
    /\ refs = <<>>
    /\ ret = NoneObj
    /\ op = "init"
    /\ res = Ok(<<>>)
    /\ a = <<>>
    /\ b = <<>>
    /\ intervals = <<>>
    /\ exc = "None"

NextOrd ==
    \/ do_lt
    \/ do_gt
    \/ do_eq
    \/ do_ne
    \/ do_le
    \/ do_ge
    \/ do_neg

SpecOrd == InitOrd /\ [][NextOrd]_vars

\* C15: the extended order is a strict total order with bottom and top:
\* exactly one of x < y, x == y, x > y holds for every pair of bounds;
\* NegInf < v < PosInf for every domain value v; a sentinel equals only
\* itself; NegInf < NegInf and PosInf > PosInf are false; negating one
\* sentinel yields the other.
C15_ExtendedOrder ==
    /\ op = "lt" =>
           /\ res.val => ~Eq(args[1], args[2]) /\ ~Gt(args[1], args[2])
           /\ ~res.val => Eq(args[1], args[2]) \/ Gt(args[1], args[2])
           /\ (args[1] = NegInf /\ args[2] \in Vals) => res.val
           /\ (args[1] \in Vals /\ args[2] = PosInf) => res.val
           /\ (args[1] = NegInf /\ args[2] = NegInf) => ~res.val
    /\ op = "gt" =>
           /\ res.val => ~Eq(args[1], args[2]) /\ ~Lt(args[1], args[2])
           /\ (args[1] = PosInf /\ args[2] = PosInf) => ~res.val
    /\ op = "eq" =>
           /\ res.val => ~Lt(args[1], args[2]) /\ ~Gt(args[1], args[2])
           /\ (args[1] \in Sentinels \/ args[2] \in Sentinels) =>
                  (res.val <=> args[1] = args[2])
    /\ op = "neg" => res.val \in Sentinels /\ res.val # args[1]

\* ------------------------------------------------ Interval.__and__
\* The bounds and flags __and__ passes to the constructor.
and_lower(self, other) ==
    IF self.lower_bound = other.lower_bound
    THEN <<self.lower_bound, MinFlag(self.lower_closed, other.lower_closed)>>
    ELSE IF Gt(self.lower_bound, other.lower_bound)
    THEN <<self.lower_bound, self.lower_closed>>
    ELSE <<other.lower_bound, other.lower_closed>>

and_upper(self, other) ==
    IF self.upper_bound = other.upper_bound
    THEN <<self.upper_bound, MinFlag(self.upper_closed, other.upper_closed)>>
    ELSE IF Lt(self.upper_bound, other.upper_bound)
    THEN <<self.upper_bound, self.upper_closed>>
    ELSE <<other.upper_bound, other.upper_closed>>

and_result(lo, hi) == Interval_init(lo[1], hi[1], TRUE, lo[2], hi[2])

\* The copy of self that __and__ makes of an Interval() it first constructs.
and_copy(self) ==
    Then(Interval_default,
         LAMBDA result : Ok([result EXCEPT !.lower_bound = self.lower_bound,
                                           !.upper_bound = self.upper_bound,
                                           !.lower_closed = self.lower_closed,
                                           !.upper_closed = self.upper_closed]))

\* self & other at call depth d.
RECURSIVE Interval_and_at(_, _, _)
Interval_and_at(self, other, d) ==
    IF d > RecursionLimit THEN Raise("RecursionError")
    ELSE IF Interval_eq(self, other) THEN and_copy(self)
    ELSE IF comes_before(self, other)
         THEN Then(overlaps(self, other),
                   LAMBDA o : IF o
                              THEN and_result(and_lower(self, other),
                                              and_upper(self, other))
                              ELSE none)
    ELSE Interval_and_at(other, self, d + 1)

Interval_and(self, other) == Interval_and_at(self, other, 0)

\* --------------------------------- one call on Intervals drawn at the start
\* A method applied to the pair of Intervals a and b.
Apply(name, r) ==
    /\ op = "init"
    /\ op' = name
    /\ res' = r
    /\ UNCHANGED <<a, b, intervals, exc, args, lists, refs, ret>>

do_overlaps == Apply("overlaps", overlaps(a, b))

do_adjacent_to == Apply("adjacent_to", adjacent_to(a, b))

do_join == Apply("join", join(a, b))

do_Interval_and == Apply("Interval_and", Interval_and(a, b))

do_comes_before == Apply("comes_before", Ok(comes_before(a, b)))

\* a in b, for the Intervals a and b.
do_contains == Apply("contains", Ok(Interval_contains(b, a)))

\* A constructor called with the arguments given.
Construct(name, given, r) ==
    /\ op = "init"
    /\ op' = name
    /\ args' = given
    /\ res' = r
    /\ UNCHANGED <<a, b, intervals, exc, lists, refs, ret>>

new_Interval(l, u, c, lc, uc) ==
    Construct("Interval", <<l, u, c, lc, uc>>, Interval_init(l, u, c, lc, uc))

new_none == Construct("none", <<>>, none)

new_all == Construct("all", <<>>, all)

new_between(x, y, c) == Construct("between", <<x, y, c>>, between(x, y, c))

new_equal_to(v) == Construct("equal_to", <<v>>, equal_to(v))

new_less_than(v) == Construct("less_than", <<v>>, less_than(v))

new_less_than_or_equal_to(v) ==
    Construct("less_than_or_equal_to", <<v>>, less_than_or_equal_to(v))

new_greater_than(v) == Construct("greater_than", <<v>>, greater_than(v))

new_greater_than_or_equal_to(v) ==
    Construct("greater_than_or_equal_to", <<v>>, greater_than_or_equal_to(v))

\* v in a, for a discrete value v.
do_contains_value(v) ==
    Construct("contains_value", <<v>>,
              Ok(Interval_contains_obj(a, ValueObj(v))))

InitIv ==
    /\ a \in Intervals
    /\ b \in Intervals
    /\ op = "init"
    /\ res = Ok(<<>>)
    /\ args = <<>>
    /\ lists = <<>>
    /\ refs = <<>>
    /\ ret = NoneObj
    /\ intervals = <<>>
    /\ exc = "None"

NextIv ==
    \/ do_overlaps
    \/ do_adjacent_to
    \/ do_join
    \/ do_Interval_and
    \/ do_comes_before
    \/ do_contains
    \/ \E v \in Vals : do_contains_value(v)
    \/ \E l \in Bounds, u \in Bounds, c \in BOOLEAN, lc \in BOOLEAN,
          uc \in BOOLEAN : new_Interval(l, u, c, lc, uc)
    \/ new_none
    \/ new_all
    \/ \E x \in Vals, y \in Vals, c \in BOOLEAN : new_between(x, y, c)
    \/ \E v \in Vals : new_equal_to(v)
    \/ \E v \in Vals : new_less_than(v)
    \/ \E v \in Vals : new_less_than_or_equal_to(v)
    \/ \E v \in Vals : new_greater_than(v)
    \/ \E v \in Vals : new_greater_than_or_equal_to(v)

SpecIv == InitIv /\ [][NextIv]_vars

\* An Interval value as the constructor promises it: lower <= upper in the
\* extended order, and no unbounded end closed.
WellFormed(r) ==
    /\ r.lower_bound <= r.upper_bound
    /\ r.lower_bound = NegInf => ~r.lower_closed
    /\ r.upper_bound = PosInf => ~r.upper_closed

\* The operations that return an Interval.
Makers ==
    {"Interval", "none", "all", "between", "equal_to", "less_than",
     "less_than_or_equal_to", "greater_than", "greater_than_or_equal_to",
     "join", "Interval_and"}

ReturnsFlags(r, lc, uc) ==
    /\ r.exc = "None"
    /\ r.val.lower_closed = lc
    /\ r.val.upper_closed = uc

\* C13: the constructor honours an explicit open flag: for bounded l <= u,
\* Interval(l, u, closed=False) is open at both ends (so are Interval.none()
\* and Interval.between(a, b, False)), Interval(l, u, lower_closed=False) is
\* open below and closed above, and Interval(l, u, upper_closed=False) is
\* closed below and open above.  Arguments left out take the defaults of
\* the signature, which are all True.
C13_ExplicitOpenFlag ==
    /\ (/\ op = "Interval"
        /\ args[1] \in Vals /\ args[2] \in Vals /\ args[1] <= args[2]) =>
           /\ (~args[3] /\ args[4] /\ args[5]) =>
                  ReturnsFlags(res, FALSE, FALSE)
           /\ (args[3] /\ ~args[4] /\ args[5]) =>
                  ReturnsFlags(res, FALSE, TRUE)
           /\ (args[3] /\ args[4] /\ ~args[5]) =>
                  ReturnsFlags(res, TRUE, FALSE)
    /\ op = "none" => ReturnsFlags(res, FALSE, FALSE)
    /\ (op = "between" /\ args[1] <= args[2] /\ ~args[3]) =>
           ReturnsFlags(res, FALSE, FALSE)

\* The call returned the Interval with these bounds and flags.
ReturnsInterval(r, l, lc, u, uc) ==
    /\ r.exc = "None"
    /\ r.val = [lower_bound |-> l, lower_closed |-> lc,
                upper_bound |-> u, upper_closed |-> uc]

\* C14: for every domain value v, Interval.all(), less_than(v),
\* less_than_or_equal_to(v), greater_than(v) and
\* greater_than_or_equal_to(v) return, without raising, the Interval whose
\* unbounded ends are open and whose bounded end is open for
\* less_than/greater_than and closed for the or_equal_to forms.
C14_UnboundedConstructors ==
    /\ op = "all" => ReturnsInterval(res, NegInf, FALSE, PosInf, FALSE)
    /\ op = "less_than" =>
           ReturnsInterval(res, NegInf, FALSE, args[1], FALSE)
    /\ op = "less_than_or_equal_to" =>
           ReturnsInterval(res, NegInf, FALSE, args[1], TRUE)
    /\ op = "greater_than" =>
           ReturnsInterval(res, args[1], FALSE, PosInf, FALSE)
    /\ op = "greater_than_or_equal_to" =>
           ReturnsInterval(res, args[1], TRUE, PosInf, FALSE)

\* The two Intervals share at least one point.
SharePoint(x, y) == \E t \in Points : PointIn(t, x) /\ PointIn(t, y)

\* Both calls returned normally, and returned the same value.
SameResult(r1, r2) == r1.exc = "None" /\ r2.exc = "None" /\ r1.val = r2.val

\* C16: for every pair of Intervals a and b, a.overlaps(b) == b.overlaps(a),
\* and a.overlaps(b) is true exactly when a and b share at least one point.
C16_Overlaps ==
    op = "overlaps" =>
        /\ SameResult(res, overlaps(b, a))
        /\ res.val <=> SharePoint(a, b)

\* x comes before y, x's upper bound is y's lower bound, and exactly one of
\* the two touching endpoints is closed.
TouchesBefore(x, y) ==
    /\ comes_before(x, y)
    /\ x.upper_bound = y.lower_bound
    /\ x.upper_closed # y.lower_closed

\* C17: for every pair of Intervals a and b, a.adjacent_to(b) ==
\* b.adjacent_to(a); it is true exactly when the one that comes first has
\* its upper bound equal to the other's lower bound with exactly one of the
\* two touching endpoints closed; and a.adjacent_to(b) implies
\* not a.overlaps(b).
C17_AdjacentTo ==
    op = "adjacent_to" =>
        /\ SameResult(res, adjacent_to(b, a))
        /\ res.val <=> (TouchesBefore(a, b) \/ TouchesBefore(b, a))
        /\ res.val => (overlaps(a, b).exc = "None" /\ ~overlaps(a, b).val)

\* C18: for every pair of Intervals a and b, bounded or unbounded,
\* a.join(b) returns an Interval exactly when a.overlaps(b) or
\* a.adjacent_to(b); otherwise, and only then, it raises ArithmeticError.
C18_JoinDefined ==
    op = "join" =>
        /\ res.exc \in {"None", "ArithmeticError"}
        /\ res.exc = "None" <=> Touching(a, b)

\* The convex hull of two Intervals: the outermost bound on each side, with
\* the flag closed on a tie when either operand is closed there.
Hull(x, y) ==
    [lower_bound |-> IF x.lower_bound <= y.lower_bound
                     THEN x.lower_bound ELSE y.lower_bound,
     lower_closed |-> IF x.lower_bound < y.lower_bound THEN x.lower_closed
                      ELSE IF y.lower_bound < x.lower_bound
                      THEN y.lower_closed
                      ELSE x.lower_closed \/ y.lower_closed,
     upper_bound |-> IF x.upper_bound >= y.upper_bound
                     THEN x.upper_bound ELSE y.upper_bound,
     upper_closed |-> IF x.upper_bound > y.upper_bound THEN x.upper_closed
                      ELSE IF y.upper_bound > x.upper_bound
                      THEN y.upper_closed
                      ELSE x.upper_closed \/ y.upper_closed]

\* C19: when a.join(b) succeeds the result is the convex hull of a and b,
\* so it contains exactly the points of a together with the points of b,
\* and a.join(b) == b.join(a).
C19_JoinHull ==
    (op = "join" /\ res.exc = "None") =>
        /\ res.val = Hull(a, b)
        /\ \A t \in Points :
               PointIn(t, res.val) <=> (PointIn(t, a) \/ PointIn(t, b))
        /\ SameResult(res, join(b, a))

\* C20: for every pair of Intervals a and b, a & b returns, without
\* raising, an Interval containing exactly the points common to a and b
\* (an empty interval when they do not overlap), and a & a == a.
C20_IntervalAnd ==
    op = "Interval_and" =>
        /\ res.exc = "None"
        /\ \A t \in Points :
               PointIn(t, res.val) <=> (PointIn(t, a) /\ PointIn(t, b))
        /\ a = b => Interval_eq(res.val, a)

\* C21: for all non-empty Intervals x and s, x in s is true exactly when
\* every point of x is a point of s; and for a discrete value v, v in s is
\* true exactly when lower < v < upper or v equals a closed bound of s.
C21_IntervalContains ==
    /\ (op = "contains" /\ NonEmpty(a) /\ NonEmpty(b)) =>
           (res.val <=> \A t \in Points : PointIn(t, a) => PointIn(t, b))
    /\ (op = "contains_value" /\ NonEmpty(a)) =>
           (res.val <=>
               \/ a.lower_bound < args[1] /\ args[1] < a.upper_bound
               \/ args[1] = a.lower_bound /\ a.lower_closed
               \/ args[1] = a.upper_bound /\ a.upper_closed)

\* C22: for two Intervals with equal lower bounds, equal lower flags and
\* equal upper bounds whose upper flags differ, the one closed above comes
\* before the one open above: closed.comes_before(open) is true and
\* open.comes_before(closed) is false.
C22_ClosedUpperFirst ==
    (/\ op = "comes_before"
     /\ a.lower_bound = b.lower_bound
     /\ a.lower_closed = b.lower_closed
     /\ a.upper_bound = b.upper_bound
     /\ a.upper_closed /\ ~b.upper_closed) =>
        (res.val /\ ~comes_before(b, a))

\* C28: comes_before is a strict total order on Intervals, bounded or
\* unbounded: a.comes_before(a) is false, of two Intervals that differ in
\* some field exactly one comes before the other, and a before b with b
\* before c implies a before c.
C28_StrictTotalOrder ==
    op = "comes_before" =>
        /\ ~comes_before(a, a)
        /\ a # b => (res.val # comes_before(b, a))
        /\ \A c \in Intervals :
               (res.val /\ comes_before(b, c)) => comes_before(a, c)

\* C29: for every pair of Intervals a and b, a.overlaps(b),
\* a.adjacent_to(b) and a & b terminate, each delegating to the swapped
\* call at most once: the call does not exhaust the interpreter's stack,
\* even when only one further nested call is left.
C29_Termination ==
    /\ op = "overlaps" =>
           /\ res.exc # "RecursionError"
           /\ overlaps_at(a, b, RecursionLimit - 1).exc # "RecursionError"
    /\ op = "adjacent_to" =>
           /\ res.exc # "RecursionError"
           /\ adjacent_to_at(a, b, RecursionLimit - 1).exc # "RecursionError"
    /\ op = "Interval_and" =>
           /\ res.exc # "RecursionError"
           /\ Interval_and_at(a, b, RecursionLimit - 1).exc
                  # "RecursionError"

\* The points of an argument: those of the Interval, or the one value.
PointInObj(t, obj) ==
    IF obj.kind = "Interval" THEN PointIn(t, obj.iv) ELSE t = 2 * obj.v

\* obj has a point, and one stored interval holds every point of obj.
Covered(ivs, obj) ==
    /\ \E t \in Points : PointInObj(t, obj)
    /\ \E k \in 1..Len(ivs) :
           \A t \in Points : PointInObj(t, obj) => PointIn(t, ivs[k])

\* C23: remove(obj) raises KeyError exactly when obj, a value or an
\* Interval, is not fully covered by one stored interval, and then the
\* stored sequence is unchanged; when obj is covered, remove succeeds and
\* afterwards no point of obj is in the set while every other point that
\* was in the set still is.
C23_Remove ==
    [][\A obj \in Args :
          (remove(obj) /\ \E t \in Points : PointInObj(t, obj)) =>
              IF Covered(intervals, obj)
              THEN /\ exc' = "None"
                   /\ \A t \in Points :
                          Member(t, intervals') <=>
                              (Member(t, intervals) /\ ~PointInObj(t, obj))
              ELSE exc' = "KeyError" /\ intervals' = intervals]_vars

\* C24: pop() on a non-empty IntervalSet removes exactly the last interval
\* in sorted order and returns it, as the bare bound value when it is a
\* closed degenerate point, leaving the other stored intervals unchanged
\* and in order; pop() on an empty IntervalSet raises KeyError and the set
\* stays empty.
C24_Pop ==
    [][op' = "pop" =>
          IF Len(intervals) > 0
          THEN LET last == intervals[Len(intervals)]
               IN /\ exc' = "None"
                  /\ intervals' = SubSeq(intervals, 1, Len(intervals) - 1)
                  /\ Len(intervals') = Len(intervals) - 1
                  /\ \A k \in 1..Len(intervals') :
                         /\ intervals'[k].lower_bound <= last.lower_bound
                         /\ ~comes_before(last, intervals'[k])
                  /\ ret' =
                         IF /\ last.lower_bound = last.upper_bound
                            /\ last.lower_closed /\ last.upper_closed
                         THEN ValueObj(last.lower_bound)
                         ELSE IntervalObj(last)
          ELSE exc' = "KeyError" /\ intervals' = <<>>]_vars

\* C27: for every non-empty IntervalSet, upper_closed() returns the
\* upper_closed flag of the last stored interval, and bounds() returns an
\* Interval that contains every point of the set.
C27_OuterBounds ==
    /\ (op = "upper_closed" /\ Len(intervals) > 0) =>
           /\ exc = "None"
           /\ ret = BoolObj(intervals[Len(intervals)].upper_closed)
    /\ (op = "bounds" /\ Len(intervals) > 0) =>
           /\ exc = "None"
           /\ \A t \in Points :
                  Member(t, intervals) => PointInObj(t, ret)

\* ------------------------------ objects and the list objects they refer to
\* An IntervalSet object holds a reference to a list object in its attribute
\* `intervals`.  lists[i] is the content of the i-th list object allocated
\* and refs[x] the list that x.intervals refers to, 0 while x does not
\* exist.  s and o are IntervalSets built from iterables, c is s.copy(), r
\* is the object the last operator returned and f a FrozenIntervalSet.
ObjectObj(x) == [kind |-> "object", name |-> x]

\* A constructor that handed out a list object already in use.
Fresh_reused(ls) == Len(ls)

\* The identity of the list object a constructor or a list display creates.
Fresh(ls) == Len(ls) + 1

\* x.intervals = <a new list holding content>.
Rebind(x, content) ==
    /\ Len(lists) < MaxLists
    /\ lists' = Append(lists, content)
    /\ refs' = [refs EXCEPT ![x] = Fresh(lists)]

\* The list x.intervals refers to is changed in place.
InPlace(x, content) ==
    /\ lists' = [lists EXCEPT ![refs[x]] = content]
    /\ UNCHANGED refs

BaseIntervalSet_ne(self, other) == ~BaseIntervalSet_eq(self, other)

BaseIntervalSet_lt(self, other) ==
    BaseIntervalSet_le(self, other) /\ ~BaseIntervalSet_eq(self, other)

BaseIntervalSet_gt(self, other) ==
    BaseIntervalSet_ge(self, other) /\ ~BaseIntervalSet_eq(self, other)

\* FrozenIntervalSet(items) for an iterable: __new__ builds IntervalSet(items)
\* and then calls object.__new__(cls, items), which rejects the extra
\* argument of a class that overrides __new__.
FrozenIntervalSet_new(items) ==
    Then(BaseIntervalSet_init(items), LAMBDA made : Raise("TypeError"))

\* A mutator of x that ends by assigning x.intervals the list m holds.
Mutate(name, x, m) ==
    /\ refs[x] # 0
    /\ op' = name
    /\ args' = <<x>>
    /\ res' = m
    /\ exc' = res'.exc
    /\ ret' = NoneObj
    /\ IF exc' = "None" THEN Rebind(x, res'.val)
       ELSE UNCHANGED <<lists, refs>>
    /\ UNCHANGED <<intervals, a, b>>

\* An operator or constructor whose result, the new object x, holds m.
Build(name, x, given, m) ==
    /\ op' = name
    /\ args' = given
    /\ res' = m
    /\ exc' = res'.exc
    /\ ret' = IF exc' = "None" THEN ObjectObj(x) ELSE NoneObj
    /\ IF exc' = "None" THEN Rebind(x, res'.val)
       ELSE UNCHANGED <<lists, refs>>
    /\ UNCHANGED <<intervals, a, b>>

\* A comparison or membership test of s, which returns the bool v.
Query(name, given, v) ==
    /\ op' = name
    /\ args' = given
    /\ res' = Ok(<<>>)
    /\ exc' = "None"
    /\ ret' = BoolObj(v)
    /\ UNCHANGED <<lists, refs, intervals, a, b>>

\* c = s.copy(): copy.copy makes a new object with the same attributes.
copy ==
    /\ refs["c"] = 0
    /\ op' = "copy"
    /\ args' = <<"s">>
    /\ res' = Ok(<<>>)
    /\ exc' = "None"
    /\ ret' = ObjectObj("c")
    /\ refs' = [refs EXCEPT !["c"] = refs["s"]]
    /\ UNCHANGED <<lists, intervals, a, b>>

\* x.pop() takes the last element off the list x.intervals refers to.
pop_on(x) ==
    /\ refs[x] # 0
    /\ op' = "pop"
    /\ args' = <<x>>
    /\ res' = IF Len(lists[refs[x]]) > 0
              THEN Ok(SubSeq(lists[refs[x]], 1, Len(lists[refs[x]]) - 1))
              ELSE Raise("KeyError")
    /\ exc' = res'.exc
    /\ ret' = IF exc' = "None"
              THEN pop_result(lists[refs[x]][Len(lists[refs[x]])])
              ELSE NoneObj
    /\ IF exc' = "None" THEN InPlace(x, res'.val)
       ELSE UNCHANGED <<lists, refs>>
    /\ UNCHANGED <<intervals, a, b>>

\* del x[index] deletes from the list x.intervals refers to.
delitem_on(x, index) ==
    /\ refs[x] # 0
    /\ op' = "delitem"
    /\ args' = <<x>>
    /\ res' = IF ListPosition(index, Len(lists[refs[x]])) > 0
              THEN Ok(RemoveAt(lists[refs[x]],
                               ListPosition(index, Len(lists[refs[x]]))))
              ELSE Raise("IndexError")
    /\ exc' = res'.exc
    /\ ret' = NoneObj
    /\ IF exc' = "None" THEN InPlace(x, res'.val)
       ELSE UNCHANGED <<lists, refs>>
    /\ UNCHANGED <<intervals, a, b>>

\* The items and iterables used where objects share lists: scalars and
\* closed intervals between scalars.
OwnArgs ==
    {obj \in Args : obj.kind = "Interval" =>
                        /\ obj.iv.lower_bound \in Vals
                        /\ obj.iv.upper_bound \in Vals
                        /\ obj.iv.lower_closed
                        /\ obj.iv.upper_closed}

\* The iterables passed to the constructors and to the method forms.
OwnIterables == UNION {[1..n -> OwnArgs] : n \in 0..MaxIter}

\* s and o have been built from iterables, each with a list of its own.
InitOwn ==
    /\ \E i1 \in OwnIterables, i2 \in OwnIterables :
           /\ BaseIntervalSet_init(i1).exc = "None"
           /\ BaseIntervalSet_init(i2).exc = "None"
           /\ lists = <<BaseIntervalSet_init(i1).val,
                        BaseIntervalSet_init(i2).val>>
    /\ refs = [s |-> 1, o |-> 2, c |-> 0, r |-> 0, f |-> 0]
    /\ op = "init"
    /\ exc = "None"
    /\ ret = NoneObj
    /\ res = Ok(<<>>)
    /\ args = <<>>
    /\ intervals = <<>>
    /\ a = <<>>
    /\ b = <<>>

\* Every public operation of IntervalSet on s or its copy c, with an item, an
\* iterable or the set o as its argument; f = FrozenIntervalSet(items).
NextOwn ==
    \/ copy
    \/ \E x \in {"s", "c"}, obj \in OwnArgs :
           Mutate("add", x, BaseIntervalSet_add(lists[refs[x]], obj))
    \/ \E x \in {"s", "c"}, obj \in OwnArgs :
           Mutate("remove", x, IntervalSet_remove(lists[refs[x]], obj))
    \/ \E x \in {"s", "c"}, obj \in OwnArgs :
           Mutate("discard", x, IntervalSet_discard(lists[refs[x]], obj))
    \/ \E x \in {"s", "c"} :
           Mutate("clear", x, Ok(<<>>))
    \/ \E x \in {"s", "c"} :
           pop_on(x)
    \/ \E x \in {"s", "c"}, index \in Indices :
           delitem_on(x, index)
    \/ \E x \in {"s", "c"}, other \in OwnIterables :
           Mutate("update", x,
                  union(lists[refs[x]], other))
    \/ \E x \in {"s", "c"} :
           Mutate("update_from", x,
                  BaseIntervalSet_or(lists[refs[x]], lists[refs["o"]]))
    \/ \E x \in {"s", "c"}, other \in OwnIterables :
           Mutate("intersection_update", x,
                  intersection(lists[refs[x]], other))
    \/ \E x \in {"s", "c"} :
           Mutate("intersection_update_from", x,
                  BaseIntervalSet_and(lists[refs[x]], lists[refs["o"]]))
    \/ \E x \in {"s", "c"}, other \in OwnIterables :
           Mutate("difference_update", x,
                  difference(lists[refs[x]], other))
    \/ \E x \in {"s", "c"} :
           Mutate("difference_update_from", x,
                  BaseIntervalSet_sub(lists[refs[x]], lists[refs["o"]]))
    \/ \E x \in {"s", "c"}, other \in OwnIterables :
           Mutate("symmetric_difference_update", x,
                  symmetric_difference(lists[refs[x]], other))
    \/ \E x \in {"s", "c"} :
           Mutate("symmetric_difference_update_from", x,
                  BaseIntervalSet_xor(lists[refs[x]], lists[refs["o"]]))
    \/ Build("or", "r", <<"s", "o">>,
             BaseIntervalSet_or(lists[refs["s"]], lists[refs["o"]]))
    \/ Build("add_op", "r", <<"s", "o">>,
             BaseIntervalSet_add_op(lists[refs["s"]], lists[refs["o"]]))
    \/ Build("and", "r", <<"s", "o">>,
             BaseIntervalSet_and(lists[refs["s"]], lists[refs["o"]]))
    \/ Build("sub", "r", <<"s", "o">>,
             BaseIntervalSet_sub(lists[refs["s"]], lists[refs["o"]]))
    \/ Build("xor", "r", <<"s", "o">>,
             BaseIntervalSet_xor(lists[refs["s"]], lists[refs["o"]]))
    \/ Build("invert", "r", <<"s">>, BaseIntervalSet_invert(lists[refs["s"]]))
    \/ \E other \in OwnIterables :
           Build("union", "r", <<"s">>,
                 union(lists[refs["s"]], other))
    \/ \E other \in OwnIterables :
           Build("intersection", "r", <<"s">>,
                 intersection(lists[refs["s"]], other))
    \/ \E other \in OwnIterables :
           Build("difference", "r", <<"s">>,
                 difference(lists[refs["s"]], other))
    \/ \E other \in OwnIterables :
           Build("symmetric_difference", "r", <<"s">>,
                 symmetric_difference(lists[refs["s"]], other))
    \/ Query("eq", <<"s", "o">>,
             BaseIntervalSet_eq(lists[refs["s"]], lists[refs["o"]]))
    \/ Query("ne", <<"s", "o">>,
             BaseIntervalSet_ne(lists[refs["s"]], lists[refs["o"]]))
    \/ Query("lt", <<"s", "o">>,
             BaseIntervalSet_lt(lists[refs["s"]], lists[refs["o"]]))
    \/ Query("le", <<"s", "o">>,
             BaseIntervalSet_le(lists[refs["s"]], lists[refs["o"]]))
    \/ Query("gt", <<"s", "o">>,
             BaseIntervalSet_gt(lists[refs["s"]], lists[refs["o"]]))
    \/ Query("ge", <<"s", "o">>,
             BaseIntervalSet_ge(lists[refs["s"]], lists[refs["o"]]))
    \/ Query("issubset", <<"s", "o">>,
             issubset(lists[refs["s"]], lists[refs["o"]]))
    \/ Query("issuperset", <<"s", "o">>,
             issuperset(lists[refs["s"]], lists[refs["o"]]))
    \/ \E obj \in OwnArgs :
           Query("contains", <<"s">>,
                 BaseIntervalSet_contains(lists[refs["s"]], obj))
    \/ \E items \in OwnIterables :
           Build("FrozenIntervalSet", "f", <<>>,
                 FrozenIntervalSet_new(items))

SpecOwn == InitOwn /\ [][NextOwn]_vars

\* The operations that change the set they are called on.
Mutators ==
    {"add", "remove", "discard", "clear", "pop", "delitem", "update",
     "update_from", "intersection_update", "intersection_update_from",
     "difference_update", "difference_update_from",
     "symmetric_difference_update", "symmetric_difference_update_from"}

\* C26: s.copy() returns a distinct object equal to s, and from then on a
\* mutator applied to the copy leaves the stored sequence of s unchanged
\* and a mutator applied to s leaves the stored sequence of the copy
\* unchanged.
C26_CopyOwnsSequence ==
    [][/\ op' = "copy" =>
              /\ ret' = ObjectObj("c")
              /\ refs'["c"] # 0
              /\ BaseIntervalSet_eq(lists'[refs'["c"]], lists'[refs'["s"]])
       /\ (refs["c"] # 0 /\ op' \in Mutators /\ args' = <<"c">>) =>
              lists'[refs'["s"]] = lists[refs["s"]]
       /\ (refs["c"] # 0 /\ op' \in Mutators /\ args' = <<"s">>) =>
              lists'[refs'["c"]] = lists[refs["c"]]]_vars

Algebra ==
    {"or", "add_op", "and", "sub", "xor", "invert", "union", "intersection",
     "difference", "symmetric_difference"}

Comparisons ==
    {"eq", "ne", "lt", "le", "gt", "ge", "issubset", "issuperset", "contains"}

Updates ==
    {"update", "update_from", "intersection_update",
     "intersection_update_from", "difference_update",
     "difference_update_from", "symmetric_difference_update",
     "symmetric_difference_update_from"}

\* The object x and the sequence it stores are the same after the step.
Untouched(x) ==
    /\ refs'[x] = refs[x]
    /\ refs[x] # 0 => lists'[refs'[x]] = lists[refs[x]]

\* C30: the algebra operators and methods, the comparisons and the
\* membership test leave the stored sequences of their operands (and of
\* every other set) unchanged, a result they return has a list of its own,
\* shared with no operand, and the *_update methods change only the set
\* they are called on, never their argument, with which the updated set
\* shares no list.
C30_OperandsUntouched ==
    [][/\ op' \in Algebra \cup Comparisons =>
              \A x \in {"s", "o", "c"} : Untouched(x)
       /\ (op' \in Algebra /\ exc' = "None") =>
              /\ ret' = ObjectObj("r")
              /\ refs'["r"] # 0
              /\ \A x \in {"s", "o", "c"} : refs'["r"] # refs'[x]
       /\ op' \in Updates =>
              /\ \A x \in {"s", "o", "c", "r"} \ {args'[1]} : Untouched(x)
              /\ refs'[args'[1]] # refs'["o"]]_vars

\* s | o has returned a non-empty union of two non-empty sets while a copy
\* of s exists.
C30_Witness ==
    /\ op = "or"
    /\ exc = "None"
    /\ ret = ObjectObj("r")
    /\ refs["c"] # 0
    /\ lists[refs["s"]] # <<>>
    /\ lists[refs["o"]] # <<>>
    /\ lists[refs["r"]] # <<>>

====
